---------------------------- MODULE Spec2Model ----------------------------
(***************************************************************************)
(* Model of the viva-simulator session logic of src/app.py: the Streamlit  *)
(* script run of main() (render the transcript, ingest the PDF and ask the *)
(* opening question, take a spoken answer and ask the examiner model for   *)
(* the next reply), with the string handling of the structured prefix.     *)
(*                                                                         *)
(* Text is a sequence of tokens.  A token is one character ("{", "}", the  *)
(* quote, ":", ",", " " for any whitespace, "a"/"b" for ordinary letters), *)
(* a word ("score", "precision_feedback") or a JSON number ("0", "85",     *)
(* "100", "150").  Python values that may be None, a number or a string    *)
(* are records [t, n, s] (NoneVal, Num(n), Str(s)).                        *)
(***************************************************************************)
EXTENDS Integers, Sequences, FiniteSets

VARIABLES
    chat_history,        \* st.session_state.chat_history: Seq of [role, content]
    score,               \* st.session_state.score
    precision_feedback,  \* st.session_state.precision_feedback (NoneVal: key absent)
    pdf_text,            \* st.session_state.pdf_text
    pc,                  \* position of the script run: "render", "pdf", "hook", "audio"
    audio,               \* this run: mic_recorder returned a recording (line 191)
    user_text,           \* this run: result of process_audio (line 195)
    response_text,       \* this run: result of the last generate_response
    gemini_history,      \* the conversation last handed to model.generate_content
    screen               \* texts written by the last display loop, one per turn

vars == <<chat_history, score, precision_feedback, pdf_text, pc, audio,
          user_text, response_text, gemini_history, screen>>

\* Bound of the model: the transcript holds at most MaxTurns turns.
MaxTurns == 3

---------------------------------------------------------------------------
\* Python values

NoneVal == [t |-> "none", n |-> 0, s |-> <<>>]
Num(n) == [t |-> "num", n |-> n, s |-> <<>>]
Str(s) == [t |-> "str", n |-> 0, s |-> s]

\* Python truthiness: None, 0 and "" are false.
Truthy(v) == (v.t = "str" /\ v.s # <<>>) \/ (v.t = "num" /\ v.n # 0)

---------------------------------------------------------------------------
\* str methods

IsSpace(c) == c = " "

RECURSIVE lstrip(_)
lstrip(s) == IF s # <<>> /\ IsSpace(Head(s)) THEN lstrip(Tail(s)) ELSE s

RECURSIVE rstrip(_)
rstrip(s) ==
    IF s # <<>> /\ IsSpace(s[Len(s)]) THEN rstrip(SubSeq(s, 1, Len(s) - 1)) ELSE s

strip(s) == rstrip(lstrip(s))

startswith(s, c) == s # <<>> /\ Head(s) = c

contains(s, c) == \E i \in 1..Len(s) : s[i] = c

\* Index of the first c in s, 0 when there is none.
find(s, c) ==
    IF contains(s, c)
    THEN CHOOSE i \in 1..Len(s) : s[i] = c /\ \A j \in 1..(i - 1) : s[j] # c
    ELSE 0

\* Index of the last c in s, 0 when there is none.
rfind(s, c) ==
    IF contains(s, c)
    THEN CHOOSE i \in 1..Len(s) : s[i] = c /\ \A j \in (i + 1)..Len(s) : s[j] # c
    ELSE 0

\* split1 as s.rsplit(c, 1): the split is at the last c.
split1_AtLast(s, c) ==
    IF rfind(s, c) = 0
    THEN <<s>>
    ELSE <<SubSeq(s, 1, rfind(s, c) - 1), SubSeq(s, rfind(s, c) + 1, Len(s))>>

\* s.split(c, 1): one part when c does not occur, else the text before the
\* first c and the text after it.
split1(s, c) ==
    IF find(s, c) = 0
    THEN <<s>>
    ELSE <<SubSeq(s, 1, find(s, c) - 1), SubSeq(s, find(s, c) + 1, Len(s))>>

---------------------------------------------------------------------------
\* json.loads on the token language: a flat object of string keys whose
\* values are numbers or strings.

Quote == "\""

NumTokens == {"0", "85", "100", "150"}

NumVal(c) ==
    CASE c = "0" -> 0
      [] c = "85" -> 85
      [] c = "100" -> 100
      [] c = "150" -> 150
      [] OTHER -> 0

JStart == [m |-> "start", k |-> <<>>, v |-> <<>>, obj |-> <<>>]

\* One character of the decoder.  m is the decoder's position, k the key and
\* v the string value being read, obj the (key, value) pairs read so far.
JStep(j, c) ==
    CASE j.m = "start" ->
            IF IsSpace(c) THEN j
            ELSE IF c = "{" THEN [j EXCEPT !.m = "first"]
            ELSE [j EXCEPT !.m = "err"]
      [] j.m = "first" ->
            IF IsSpace(c) THEN j
            ELSE IF c = Quote THEN [j EXCEPT !.m = "inkey", !.k = <<>>]
            ELSE IF c = "}" THEN [j EXCEPT !.m = "end"]
            ELSE [j EXCEPT !.m = "err"]
      [] j.m = "key" ->
            IF IsSpace(c) THEN j
            ELSE IF c = Quote THEN [j EXCEPT !.m = "inkey", !.k = <<>>]
            ELSE [j EXCEPT !.m = "err"]
      [] j.m = "inkey" ->
            IF c = Quote THEN [j EXCEPT !.m = "colon"]
            ELSE [j EXCEPT !.k = Append(j.k, c)]
      [] j.m = "colon" ->
            IF IsSpace(c) THEN j
            ELSE IF c = ":" THEN [j EXCEPT !.m = "value"]
            ELSE [j EXCEPT !.m = "err"]
      [] j.m = "value" ->
            IF IsSpace(c) THEN j
            ELSE IF c = Quote THEN [j EXCEPT !.m = "instr", !.v = <<>>]
            ELSE IF c \in NumTokens
                 THEN [j EXCEPT !.m = "next",
                                !.obj = Append(j.obj, [k |-> j.k, v |-> Num(NumVal(c))])]
            ELSE [j EXCEPT !.m = "err"]
      [] j.m = "instr" ->
            IF c = Quote
            THEN [j EXCEPT !.m = "next",
                           !.obj = Append(j.obj, [k |-> j.k, v |-> Str(j.v)])]
            ELSE [j EXCEPT !.v = Append(j.v, c)]
      [] j.m = "next" ->
            IF IsSpace(c) THEN j
            ELSE IF c = "," THEN [j EXCEPT !.m = "key"]
            ELSE IF c = "}" THEN [j EXCEPT !.m = "end"]
            ELSE [j EXCEPT !.m = "err"]
      [] j.m = "end" ->
            IF IsSpace(c) THEN j ELSE [j EXCEPT !.m = "err"]
      [] OTHER -> j

RECURSIVE JScan(_, _)
JScan(j, s) == IF s = <<>> THEN j ELSE JScan(JStep(j, Head(s)), Tail(s))

\* json.loads(s): ok is FALSE where Python raises JSONDecodeError.
json_loads(s) ==
    LET j == JScan(JStart, s) IN [ok |-> j.m = "end", obj |-> j.obj]

\* dict_get as dict.get(key): None when the key is absent.
dict_get_NoDefault(obj, key, default) ==
    IF \E i \in 1..Len(obj) : obj[i].k = key
    THEN obj[CHOOSE i \in 1..Len(obj) :
                 obj[i].k = key /\ \A j \in (i + 1)..Len(obj) : obj[j].k # key].v
    ELSE NoneVal

\* dict.get(key, default); of a repeated key the last value stands.
dict_get(obj, key, default) ==
    IF \E i \in 1..Len(obj) : obj[i].k = key
    THEN obj[CHOOSE i \in 1..Len(obj) :
                 obj[i].k = key /\ \A j \in (i + 1)..Len(obj) : obj[j].k # key].v
    ELSE default

---------------------------------------------------------------------------
\* The reply handling of main()

Turn(role, content) == [role |-> role, content |-> content]

\* The try block of lines 178-183 and 206-211 up to the two assignments:
\* "parsed" with the decoded fields, "noprefix" when the reply does not start
\* with "{", "except" where the unpacking or json.loads raises.
ParsePrefix(text) ==
    IF startswith(strip(text), "{")
    THEN LET parts == split1(text, "}") IN
         IF Len(parts) < 2
         THEN [outcome |-> "except", score |-> NoneVal, feedback |-> NoneVal]
         ELSE LET d == json_loads(parts[1] \o <<"}">>) IN
              IF d.ok
              THEN [outcome |-> "parsed",
                    score |-> dict_get(d.obj, <<"score">>, Num(0)),
                    feedback |-> dict_get(d.obj, <<"precision_feedback">>, Str(<<>>))]
              ELSE [outcome |-> "except", score |-> NoneVal, feedback |-> NoneVal]
    ELSE [outcome |-> "noprefix", score |-> NoneVal, feedback |-> NoneVal]

\* Lines 145-158: the text the display loop writes for one turn.
DisplayText(role, content) ==
    IF role = "assistant" /\ startswith(strip(content), "{")
    THEN LET parts == split1(content, "}") IN
         IF Len(parts) < 2 THEN content ELSE strip(parts[2])
    ELSE content

Display(history) ==
    [i \in 1..Len(history) |-> DisplayText(history[i].role, history[i].content)]

\* SanitizeContent without the test of the role: user text is cut as well.
SanitizeContent_AnyRole(role, content) ==
    IF contains(content, "{") /\ contains(content, "}")
    THEN strip(split1(content, "}")[2])
    ELSE content

\* Lines 90-100: the content generate_response replays for one earlier turn.
SanitizeContent(role, content) ==
    IF role = "model" /\ contains(content, "{") /\ contains(content, "}")
    THEN strip(split1(content, "}")[2])
    ELSE content

GeminiRole(role) == IF role = "user" THEN "user" ELSE "model"

\* Lines 89-100: the earlier turns as generate_response replays them, each
\* with the role the model API uses and its content sanitized.
Sanitize(history) ==
    [i \in 1..Len(history) |->
        [role |-> GeminiRole(history[i].role),
         content |-> SanitizeContent(GeminiRole(history[i].role), history[i].content)]]

\* Lines 88-104: the conversation generate_response hands to the model.
GeminiHistory(user_input, history) ==
    [i \in 1..Len(history) |->
        [role |-> Sanitize(history)[i].role, parts |-> Sanitize(history)[i].content]]
    \o <<[role |-> "user", parts |-> user_input]>>

\* Lines 175-188: the session after the opening question's reply.
AfterFirstReply(history, sc, fb, text) ==
    LET p == ParsePrefix(text) IN
    CASE p.outcome = "parsed" ->
            [chat_history |-> Append(history, Turn("assistant", text)),
             score |-> p.score, precision_feedback |-> p.feedback, rerun |-> TRUE]
      [] p.outcome = "except" ->
            [chat_history |-> Append(history, Turn("assistant", text)),
             score |-> sc, precision_feedback |-> fb, rerun |-> FALSE]
      [] OTHER ->
            [chat_history |-> history,
             score |-> sc, precision_feedback |-> fb, rerun |-> FALSE]

\* AfterSubmitReply with the bug of resetting the score on a reply that does
\* not parse.
AfterSubmitReply_ResetOnFailure(history, sc, fb, text) ==
    LET p == ParsePrefix(text) IN
    [chat_history |-> Append(history, Turn("assistant", text)),
     score |-> IF p.outcome = "parsed" THEN p.score ELSE Num(0),
     precision_feedback |-> IF p.outcome = "parsed" THEN p.feedback ELSE Str(<<>>)]

\* AfterSubmitReply with the stored earlier turns sanitized in place.
AfterSubmitReply_SanitizeInPlace(history, sc, fb, text) ==
    LET p == ParsePrefix(text)
        cut == [i \in 1..Len(history) |->
                  Turn(history[i].role,
                       SanitizeContent(GeminiRole(history[i].role), history[i].content))]
    IN
    [chat_history |-> Append(cut, Turn("assistant", text)),
     score |-> IF p.outcome = "parsed" THEN p.score ELSE sc,
     precision_feedback |-> IF p.outcome = "parsed" THEN p.feedback ELSE fb]

\* AfterSubmitReply keeping a running total instead of the last score.
AfterSubmitReply_Accumulate(history, sc, fb, text) ==
    LET p == ParsePrefix(text) IN
    [chat_history |-> Append(history, Turn("assistant", text)),
     score |-> IF p.outcome = "parsed" THEN Num(sc.n + p.score.n) ELSE sc,
     precision_feedback |-> IF p.outcome = "parsed" THEN p.feedback ELSE fb]

\* AfterSubmitReply with the bug of lines 179-185: no else branch, a reply
\* without a prefix is not appended.
AfterSubmitReply_NoElse(history, sc, fb, text) ==
    LET p == ParsePrefix(text) IN
    CASE p.outcome = "parsed" ->
            [chat_history |-> Append(history, Turn("assistant", text)),
             score |-> p.score, precision_feedback |-> p.feedback]
      [] p.outcome = "except" ->
            [chat_history |-> Append(history, Turn("assistant", text)),
             score |-> sc, precision_feedback |-> fb]
      [] OTHER ->
            [chat_history |-> history, score |-> sc, precision_feedback |-> fb]

\* Lines 203-216: the session after the reply to an answer.
AfterSubmitReply(history, sc, fb, text) ==
    LET p == ParsePrefix(text) IN
    CASE p.outcome = "parsed" ->
            [chat_history |-> Append(history, Turn("assistant", text)),
             score |-> p.score, precision_feedback |-> p.feedback]
      [] p.outcome = "except" ->
            [chat_history |-> Append(history, Turn("assistant", text)),
             score |-> sc, precision_feedback |-> fb]
      [] OTHER ->
            [chat_history |-> Append(history, Turn("assistant", text)),
             score |-> sc, precision_feedback |-> fb]

\* HookNeeded without the test of line 170.
HookNeeded_Always(history) == TRUE

\* Line 170: the opening question is asked while the transcript is empty.
HookNeeded(history) == history = <<>>

\* Line 161: the guard of the PDF block.
ShouldIngest(uploaded, text) == uploaded /\ ~Truthy(text)

\* EarlierTurns without the [:-1] of line 201.
EarlierTurns_All(history) == history

\* Line 201: the earlier turns handed to generate_response.
EarlierTurns(history) == SubSeq(history, 1, Len(history) - 1)

\* AnswerGiven as "is not None": an empty transcript counts as an answer.
AnswerGiven_NotNone(text) == text.t # "none"

\* Line 197: the transcript of the answer is there.
AnswerGiven(text) == Truthy(text)

\* AfterNoReply with the answer rolled back.
AfterNoReply_RollBack(history, asked) == history

\* Lines 198-203: the transcript after a model call that returned nothing;
\* history is the transcript before the answer, asked the one with it.
AfterNoReply(history, asked) == asked

---------------------------------------------------------------------------
\* Inputs

InitialPrompt == <<"Start the viva. Ask me a question from the notes.">>

\* Texts a PDF may extract to; a scanned PDF extracts to the empty text.
Docs == {<<>>, <<"a">>}

\* What process_audio may return: None on an exception, or the transcript.
UserTexts == {<<"a">>, <<"{", "b", "}">>}
TranscribeOutcomes == {NoneVal, Str(<<>>)} \cup {Str(u) : u \in UserTexts}

\* json_prefix(s, f) of the spec: the prefix the model is instructed to emit.
JsonPrefix(s, f) ==
    <<"{", Quote, "score", Quote, ":", " ", s, ",", " ",
      Quote, "precision_feedback", Quote, ":", " ", Quote>> \o f \o <<Quote, "}">>

RTScores == {"0", "85"}
RTFeedbacks == {<<>>, <<"a", " ", "b">>}
RTBodies == {<<>>, <<" ", "a", " ">>, <<"a", "{", "b", "}">>, <<" ", "{", "b">>}

WellFormed ==
    {JsonPrefix(s, f) \o d : s \in RTScores, f \in RTFeedbacks, d \in RTBodies}

OtherReplies ==
    { <<"a">>,                                              \* no prefix
      <<" ">>,                                              \* whitespace only
      <<"a", "{", "b", "}", "a">>,                          \* braces in the body
      <<"{", "a", "}", "b">>,                               \* malformed prefix
      <<"{", "a">>,                                         \* no closing brace
      <<"{", "}", "a">>,                                    \* no fields
      <<"{", Quote, "precision_feedback", Quote, ":", Quote, "a", Quote, "}", "b">>,
      <<" ", "{", Quote, "score", Quote, ":", "100", "}", " ", "a">>,
      <<"{", Quote, "score", Quote, ":", "150", "}", "a">>, \* out of range
      <<"{", Quote, "precision_feedback", Quote, ":", Quote, "a", "}", Quote, "}", "b">>,
      <<"{", Quote, "score", Quote, ":", "85", "}", "{", "a", "}", "b">> }

Replies == WellFormed \cup OtherReplies

\* What generate_response may return: None on an exception, or response.text.
ModelOutcomes == {NoneVal, Str(<<>>)} \cup {Str(r) : r \in Replies}

---------------------------------------------------------------------------
\* The script run

Init ==
    /\ chat_history = <<>>
    /\ score = Num(0)
    /\ precision_feedback = NoneVal
    /\ pdf_text = NoneVal
    /\ pc = "render"
    /\ audio = FALSE
    /\ user_text = NoneVal
    /\ response_text = NoneVal
    /\ gemini_history = <<>>
    /\ screen = <<>>

\* Lines 134-158: a run starts; the display loop writes the transcript.
Render ==
    /\ pc = "render"
    /\ screen' = Display(chat_history)
    /\ audio' = FALSE
    /\ user_text' = NoneVal
    /\ response_text' = NoneVal
    /\ pc' = "pdf"
    /\ UNCHANGED <<chat_history, score, precision_feedback, pdf_text, gemini_history>>

\* Lines 161-167: the text of the uploaded PDF becomes the reference text.
Ingest ==
    /\ pc = "pdf"
    /\ ShouldIngest(TRUE, pdf_text)
    /\ \E doc \in Docs : pdf_text' = Str(doc)
    /\ pc' = "hook"
    /\ UNCHANGED <<chat_history, score, precision_feedback, audio, user_text,
                   response_text, gemini_history, screen>>

\* Lines 162-165: PdfReader or extract_text raises; the run ends there.
IngestFail ==
    /\ pc = "pdf"
    /\ ShouldIngest(TRUE, pdf_text)
    /\ pc' = "render"
    /\ UNCHANGED <<chat_history, score, precision_feedback, pdf_text, audio,
                   user_text, response_text, gemini_history, screen>>

\* Line 161: no file is uploaded, or the reference text is already there.
NoIngest ==
    /\ pc = "pdf"
    /\ \E uploaded \in BOOLEAN : ~ShouldIngest(uploaded, pdf_text)
    /\ pc' = "audio"
    /\ UNCHANGED <<chat_history, score, precision_feedback, pdf_text, audio,
                   user_text, response_text, gemini_history, screen>>

\* Lines 169-188: the opening question, asked while the transcript is empty.
FirstPrompt ==
    /\ pc = "hook"
    /\ IF ~HookNeeded(chat_history)
       THEN /\ pc' = "audio"
            /\ UNCHANGED <<chat_history, score, precision_feedback,
                           response_text, gemini_history>>
       ELSE \E r \in ModelOutcomes :
            LET after == AfterFirstReply(chat_history, score, precision_feedback, r.s) IN
            /\ response_text' = r
            /\ gemini_history' = GeminiHistory(InitialPrompt, <<>>)
            /\ IF Truthy(r)
               THEN /\ chat_history' = after.chat_history
                    /\ score' = after.score
                    /\ precision_feedback' = after.precision_feedback
                    /\ pc' = IF after.rerun THEN "render" ELSE "audio"
               ELSE /\ UNCHANGED <<chat_history, score, precision_feedback>>
                    /\ pc' = "audio"
    /\ UNCHANGED <<pdf_text, audio, user_text, screen>>

\* Lines 191-218: the spoken answer and the examiner's reply to it.
Submit ==
    /\ pc = "audio"
    /\ \E a \in BOOLEAN, u \in TranscribeOutcomes, r \in ModelOutcomes :
        /\ audio' = a
        /\ IF ~a
           THEN UNCHANGED <<chat_history, score, precision_feedback, user_text,
                            response_text, gemini_history>>
           ELSE /\ user_text' = u
                /\ IF ~AnswerGiven(u)
                   THEN UNCHANGED <<chat_history, score, precision_feedback,
                                    response_text, gemini_history>>
                   ELSE LET asked == Append(chat_history, Turn("user", u.s))
                            after == AfterSubmitReply(asked, score, precision_feedback, r.s)
                        IN
                        /\ Len(chat_history) + 2 <= MaxTurns
                        /\ response_text' = r
                        /\ gemini_history' = GeminiHistory(u.s, EarlierTurns(asked))
                        /\ IF Truthy(r)
                           THEN /\ chat_history' = after.chat_history
                                /\ score' = after.score
                                /\ precision_feedback' = after.precision_feedback
                           ELSE /\ chat_history' = AfterNoReply(chat_history, asked)
                                /\ UNCHANGED <<score, precision_feedback>>
    /\ pc' = "render"
    /\ UNCHANGED <<pdf_text, screen>>

Next == Render \/ Ingest \/ IngestFail \/ NoIngest \/ FirstPrompt \/ Submit

Spec == Init /\ [][Next]_vars

---------------------------------------------------------------------------
\* Steps of the run, as the claims name them

\* The step is first_prompt's model call (lines 170-173).
FirstPromptCall == pc = "hook" /\ chat_history = <<>>

\* The step is a submit whose answer was transcribed (lines 193-201).
SubmitCall == pc = "audio" /\ audio' /\ Truthy(user_text')

\* The assistant turns whose structured prefix decodes.
ParsedTurns ==
    {i \in 1..Len(chat_history) :
        /\ chat_history[i].role = "assistant"
        /\ ParsePrefix(chat_history[i].content).outcome = "parsed"}

LastParsed == CHOOSE i \in ParsedTurns : \A j \in ParsedTurns : j <= i

---------------------------------------------------------------------------
\* The two parts of C1: the state part and the step part.
C1_ScoreOfLastParsed ==
    IF ParsedTurns = {}
    THEN score = Num(0) /\ precision_feedback = NoneVal
    ELSE /\ score = ParsePrefix(chat_history[LastParsed].content).score
         /\ precision_feedback = ParsePrefix(chat_history[LastParsed].content).feedback

C1_UnparsedKeepsScore ==
    ((FirstPromptCall \/ SubmitCall)
       /\ Truthy(response_text')
       /\ ParsePrefix(response_text'.s).outcome # "parsed")
    => (score' = score /\ precision_feedback' = precision_feedback)

\* C1: score and feedback are those decoded from the most recent assistant
\* reply whose prefix parsed (the initial 0 and absent feedback if there is
\* none), and a first_prompt or submit step whose reply does not parse or has
\* no prefix leaves both as they were.
C1_ScoreReflectsLastParsedReply ==
    [] C1_ScoreOfLastParsed /\ [][C1_UnparsedKeepsScore]_vars

\* C1 witness: a reply that failed to decode follows a reply that scored 85,
\* and the score is still 85.
C1_Witness ==
    /\ Len(chat_history) = 3
    /\ ParsePrefix(chat_history[1].content).outcome = "parsed"
    /\ chat_history[3].role = "assistant"
    /\ ParsePrefix(chat_history[3].content).outcome = "except"
    /\ response_text = Str(chat_history[3].content)
    /\ score = Num(85)

\* C2: a submit whose model call returns nothing leaves the transcript as it
\* was plus exactly one user turn holding the answer, and score and feedback
\* unchanged.
C2_ModelFailureKeepsAnswer ==
    [][ (SubmitCall /\ ~Truthy(response_text'))
        => /\ chat_history' = Append(chat_history, Turn("user", user_text'.s))
           /\ score' = score
           /\ precision_feedback' = precision_feedback ]_vars

\* C2 witness: after the opening question, an answer whose model call failed.
C2_Witness ==
    /\ pc = "render" /\ audio /\ Truthy(user_text) /\ ~Truthy(response_text)
    /\ Len(chat_history) = 2
    /\ chat_history[1].role = "assistant"
    /\ chat_history[2] = Turn("user", user_text.s)
    /\ score = Num(85)

\* C3: when first_prompt's model call succeeds, exactly one assistant turn
\* holding the raw reply is appended, whatever the shape of the reply.
C3_FirstPromptAppendsReply ==
    [][ (FirstPromptCall /\ Truthy(response_text'))
        => chat_history' = <<Turn("assistant", response_text'.s)>> ]_vars

\* C4: a successful submit appends exactly two turns, the user turn with the
\* answer and then the assistant turn with the raw reply, in every parse
\* branch.
C4_SubmitAppendsTwoTurns ==
    [][ (SubmitCall /\ Truthy(response_text'))
        => chat_history' = chat_history \o
              <<Turn("user", user_text'.s), Turn("assistant", response_text'.s)>> ]_vars

\* C4 witness: a submit answered by a reply without a prefix whose raw text
\* differs from what the sanitizer makes of it.
C4_Witness ==
    /\ pc = "render" /\ audio /\ Truthy(user_text) /\ Truthy(response_text)
    /\ Len(chat_history) = 3
    /\ chat_history[2] = Turn("user", user_text.s)
    /\ chat_history[3] = Turn("assistant", response_text.s)
    /\ ParsePrefix(response_text.s).outcome = "noprefix"
    /\ SanitizeContent("model", response_text.s) # response_text.s


\* C5: ingest is first-write-wins: once the reference text is set, the empty
\* text included, no later step changes it.
C5_FirstWriteWins ==
    [][ pdf_text # NoneVal => pdf_text' = pdf_text ]_vars

\* C6: sanitizing the already sanitized turns changes nothing.
C6_SanitizeIdempotent ==
    Sanitize(Sanitize(chat_history)) = Sanitize(chat_history)

\* The two parts of C7: what is kept and shown, and the step's effect on the score.
C7_KeptAndShownVerbatim ==
    \A i \in 1..Len(screen) :
        (chat_history[i].role = "assistant"
           /\ ParsePrefix(chat_history[i].content).outcome = "except")
        => screen[i] = chat_history[i].content

C7_UndecodableKeepsScore ==
    ((FirstPromptCall \/ SubmitCall)
       /\ Truthy(response_text')
       /\ ParsePrefix(response_text'.s).outcome = "except")
    => /\ chat_history'[Len(chat_history')] = Turn("assistant", response_text'.s)
       /\ score' = score
       /\ precision_feedback' = precision_feedback

\* C7: a reply that begins with "{" and whose prefix does not decode is kept
\* and displayed verbatim, and leaves score and feedback unchanged.
C7_FailOpen ==
    [] C7_KeptAndShownVerbatim /\ [][C7_UndecodableKeepsScore]_vars

\* The step of C8.
C8_EarlierSanitizedThenAnswer ==
    SubmitCall =>
      /\ Len(gemini_history') = Len(chat_history) + 1
      /\ \A i \in 1..Len(chat_history) :
            /\ gemini_history'[i].role = Sanitize(chat_history)[i].role
            /\ gemini_history'[i].parts = Sanitize(chat_history)[i].content
      /\ gemini_history'[Len(chat_history) + 1] = [role |-> "user", parts |-> user_text'.s]
      /\ (chat_history # <<>>
            /\ chat_history[1].role = "assistant"
            /\ ParsePrefix(chat_history[1].content).outcome = "parsed")
         => gemini_history'[1].parts =
               strip(SubSeq(chat_history[1].content,
                            find(chat_history[1].content, "}") + 1,
                            Len(chat_history[1].content)))

\* C8: the conversation submit hands to the model is the sanitized form of
\* every turn that was in the transcript before the answer, followed by the
\* answer as the last element and nowhere else, and a first assistant turn
\* whose prefix decodes appears as the trimmed text after its prefix.
C8_ModelInputOfSubmit == [][C8_EarlierSanitizedThenAnswer]_vars

\* C8 witness: an answer to an opening question with a decoded prefix; the
\* model was handed the question without its prefix, then the answer.
C8_Witness ==
    /\ pc = "render" /\ audio /\ Truthy(user_text)
    /\ Len(chat_history) >= 2
    /\ chat_history[1].role = "assistant"
    /\ ParsePrefix(chat_history[1].content).outcome = "parsed"
    /\ Len(gemini_history) = 2
    /\ gemini_history[1].role = "model"
    /\ gemini_history[1].parts # chat_history[1].content
    /\ gemini_history[1].parts # <<>>
    /\ gemini_history[2] = [role |-> "user", parts |-> user_text.s]

\* C9: when process_audio yields no text the turn is dropped: no turn is
\* appended, the model is not invoked, and transcript, score, feedback and
\* reference text are unchanged.
C9_TranscriptionFailureDropsTurn ==
    [][ (pc = "audio" /\ audio' /\ ~Truthy(user_text'))
        => UNCHANGED <<chat_history, score, precision_feedback, pdf_text,
                       gemini_history, response_text>> ]_vars

\* C9 witness: a recording whose transcription came back empty, in a session
\* that has a transcript and a reference text.
C9_Witness ==
    /\ pc = "render" /\ audio /\ user_text = Str(<<>>)
    /\ chat_history # <<>>
    /\ Truthy(pdf_text)

\* The step of C10.
C10_RoundTripStep ==
    \A s \in RTScores, f \in RTFeedbacks, d \in RTBodies :
        ((FirstPromptCall \/ SubmitCall) /\ response_text' = Str(JsonPrefix(s, f) \o d))
        => /\ score' = Num(NumVal(s))
           /\ precision_feedback' = Str(f)
           /\ chat_history'[Len(chat_history')] = Turn("assistant", JsonPrefix(s, f) \o d)
           /\ Display(chat_history')[Len(chat_history')] = strip(d)

\* C10: for a score s in 0..100, a feedback f without braces and a display
\* text d not starting with "{", the reply json_prefix(s, f) + d sets the
\* score to s and the feedback to f and is displayed as trim(d).
C10_ParserRoundTrip == [][C10_RoundTripStep]_vars

\* C10 witness: the reply with score 85, feedback "a b" and the display text
\* "a{b}" was given to an answer and decoded so.
C10_Witness ==
    /\ pc = "render" /\ audio /\ Truthy(user_text)
    /\ response_text = Str(JsonPrefix("85", <<"a", " ", "b">>) \o <<"a", "{", "b", "}">>)
    /\ score = Num(85)
    /\ precision_feedback = Str(<<"a", " ", "b">>)
    /\ chat_history[Len(chat_history)].content = response_text.s

\* C11: a reply d that does not start with "{" becomes an assistant turn
\* displayed as d itself and leaves score and feedback unchanged, in the
\* first_prompt path and in the submit path.
C11_NoPrefixPassthrough ==
    [][ ((FirstPromptCall \/ SubmitCall)
           /\ Truthy(response_text')
           /\ ~startswith(strip(response_text'.s), "{"))
        => /\ chat_history' # <<>>
           /\ chat_history'[Len(chat_history')] = Turn("assistant", response_text'.s)
           /\ Display(chat_history')[Len(chat_history')] = response_text'.s
           /\ score' = score
           /\ precision_feedback' = precision_feedback ]_vars

\* The two parts of C12: the sanitizer as a function of the transcript, and
\* the conversation a submit hands to the model.
C12_UserTurnsKept ==
    /\ Len(Sanitize(chat_history)) = Len(chat_history)
    /\ \A i \in 1..Len(chat_history) :
          /\ Sanitize(chat_history)[i].role = "user" <=> chat_history[i].role = "user"
          /\ chat_history[i].role = "user"
             => Sanitize(chat_history)[i].content = chat_history[i].content

C12_UserTurnsReplayed ==
    SubmitCall =>
      \A i \in 1..Len(chat_history) :
          chat_history[i].role = "user"
          => (i <= Len(gemini_history')
                /\ gemini_history'[i] = [role |-> "user", parts |-> chat_history[i].content])

\* C12: the sanitizer leaves user turns untouched: the sanitized sequence has
\* the length and order of the transcript and every user turn is at its
\* position with its text, braces included.
C12_SanitizerKeepsUserTurns ==
    [] C12_UserTurnsKept /\ [][C12_UserTurnsReplayed]_vars

\* C12 witness: an earlier user turn "{b}" (its model call had failed) was
\* replayed to the model as it is, before the new answer.
C12_Witness ==
    /\ pc = "render" /\ audio /\ Truthy(user_text) /\ Truthy(response_text)
    /\ Len(chat_history) = 3
    /\ chat_history[1] = Turn("user", <<"{", "b", "}">>)
    /\ chat_history[2] = Turn("user", user_text.s)
    /\ Len(gemini_history) = 2
    /\ gemini_history[1] = [role |-> "user", parts |-> <<"{", "b", "}">>]
    /\ SanitizeContent_AnyRole("user", chat_history[1].content) # chat_history[1].content

\* The range the examiner is asked to score in (line 57).
InRange(v) == v.t = "num" /\ v.n >= 0 /\ v.n <= 100

\* C13 as claimed: current_score is an integer in 0..100 in every reachable
\* state, whatever scores the replies carry.
C13_ScoreInRange == InRange(score)

\* C13 as amended: the score of a reply is passed through unclamped, so
\* current_score is an integer in 0..100 in every reachable state in which
\* every decoded reply of the transcript carries a score in 0..100.
C13_ScoreInRangeIfRepliesAre ==
    (\A i \in ParsedTurns : InRange(ParsePrefix(chat_history[i].content).score))
    => InRange(score)

\* C13 witness: two decoded replies, the last with the top score 100, and
\* the score is 100.
C13_Witness ==
    /\ Len(chat_history) = 3
    /\ ParsedTurns = {1, 3}
    /\ ParsePrefix(chat_history[1].content).score = Num(85)
    /\ ParsePrefix(chat_history[3].content).score = Num(100)
    /\ score = Num(100)

\* C14: a non-empty transcript implies that the reference text is set: no
\* user turn is appended and no model call made while the session is EMPTY.
C14_TurnsOnlyAfterIngest ==
    chat_history # <<>> => pdf_text # NoneVal

IsPrefix(a, b) == Len(a) <= Len(b) /\ SubSeq(b, 1, Len(a)) = a

\* C15: the transcript is append-only: over every step the transcript before
\* is a prefix of the transcript after, and the display loop and the PDF
\* block (ingest) leave it as it is; the sanitizer and the display work on
\* copies.
C15_AppendOnly ==
    [][ /\ IsPrefix(chat_history, chat_history')
        /\ pc \in {"render", "pdf"} => chat_history' = chat_history ]_vars

\* C15 witness: after a submit and a display, the stored opening question is
\* still raw although the model and the screen were given it cut.
C15_Witness ==
    /\ pc = "pdf"
    /\ Len(chat_history) = 3
    /\ chat_history[1].role = "assistant"
    /\ Len(screen) = 3 /\ screen[1] # chat_history[1].content
    /\ Len(gemini_history) = 2 /\ gemini_history[1].parts # chat_history[1].content
    /\ ParsePrefix(chat_history[1].content).outcome = "parsed"

\* C16: the sanitizer rewrites an assistant turn only when its text begins
\* with a structured prefix; text that does not start with "{" passes
\* unchanged, so the sanitized text of every assistant turn is the text
\* displayed for it.
C16_SanitizedIsDisplayed ==
    \A i \in 1..Len(chat_history) :
        chat_history[i].role = "assistant"
        => /\ ~startswith(strip(chat_history[i].content), "{")
              => Sanitize(chat_history)[i].content = chat_history[i].content
           /\ Sanitize(chat_history)[i].content = Display(chat_history)[i]

\* The step of C17.
C17_DecodedStep ==
    ((FirstPromptCall \/ SubmitCall) /\ Truthy(response_text'))
    => LET r == response_text'.s
           shown == Display(chat_history')[Len(chat_history')]
       IN
       /\ r = <<"{", "}", "a">>
          => score' = Num(0) /\ precision_feedback' = Str(<<>>) /\ shown = <<"a">>
       /\ r = <<"{", Quote, "score", Quote, ":", "150", "}", "a">>
          => score' = Num(150) /\ precision_feedback' = Str(<<>>)
       /\ r = <<"{", Quote, "precision_feedback", Quote, ":", Quote, "a", Quote, "}", "b">>
          => score' = Num(0) /\ precision_feedback' = Str(<<"a">>)
       /\ \A s \in RTScores, f \in RTFeedbacks :
             r = JsonPrefix(s, f)
             => /\ score' = Num(NumVal(s))
                /\ precision_feedback' = Str(f)
                /\ chat_history'[Len(chat_history')].content = r
                /\ shown = <<>>

\* C17: a reply whose prefix decodes sets the score to its score field, 0 if
\* absent, and the feedback to its precision_feedback field, the empty text
\* if absent; a reply that is only the prefix is displayed as the empty text.
C17_DecodedFieldsAndDefaults == [][C17_DecodedStep]_vars

\* C17 witness: after a reply that scored 85, the reply "{}a" set the score
\* to 0 and the feedback to the empty text.
C17_Witness ==
    /\ pc = "render" /\ audio
    /\ Len(chat_history) = 3
    /\ ParsePrefix(chat_history[1].content).score = Num(85)
    /\ ParsePrefix(chat_history[1].content).feedback = Str(<<"a", " ", "b">>)
    /\ response_text = Str(<<"{", "}", "a">>)
    /\ chat_history[3].content = response_text.s
    /\ score = Num(0)
    /\ precision_feedback = Str(<<>>)

\* C18: no two assistant turns are adjacent: an assistant turn is the first
\* turn or follows a user turn.
C18_NoAdjacentAssistantTurns ==
    \A i \in 1..Len(chat_history) :
        chat_history[i].role = "assistant"
        => (i = 1 \/ chat_history[i - 1].role = "user")

\* C18 witness: two user turns in a row (the first model call failed) and
\* then the assistant turn answering the second.
C18_Witness ==
    /\ Len(chat_history) = 3
    /\ chat_history[1].role = "user"
    /\ chat_history[2].role = "user"
    /\ chat_history[3].role = "assistant"

=============================================================================
